---- MODULE Spec2Model ----
(***************************************************************************)
(* Model of backend/server.js: the Express handlers for /signup, /login,   *)
(* /chat and /health/ollama, the mongoose User collection they share and   *)
(* the Ollama runtime they call.                                           *)
(*                                                                         *)
(* Node runs one handler continuation at a time, so every action below is  *)
(* the code between two awaits of one handler.  `inflight` holds the       *)
(* requests suspended at an await; `last` is the exchange (request and     *)
(* response) finished by the step just taken, if that step finished one.   *)
(* `created` is history: what each signup answered 201 was asked and told. *)
(* `reported` is history: the status of the latest health report.          *)
(* `waiter` is the wait_for_services function of the deployment scripts    *)
(* and `starter` the start script of the Ollama container: where each is,  *)
(* its loop counter, and what it has seen and printed.                     *)
(***************************************************************************)
EXTENDS Naturals, Sequences, FiniteSets, Bags, TLC

VARIABLES users, inflight, last, alive, runtime, created, reported, waiter, starter

vars == <<users, inflight, last, alive, runtime, created, reported, waiter, starter>>

(* Most requests suspended at an await at the same time. *)
MaxInFlight == 2

-----------------------------------------------------------------------------
(* JSON values of a request body, as express.json() hands them over. *)

JStr(s) == [type |-> "string", val |-> s]
JNum(s) == [type |-> "number", val |-> s]
JUndef == [type |-> "undefined", val |-> ""]
(* A JSON object holding a query operator, as in {"$ne": null}. *)
JOp(s) == [type |-> "object", val |-> s]

(* JavaScript truthiness, as used by `!username`, `!password`, `!userMessage`. *)
Truthy(v) ==
    /\ v.type # "undefined"
    /\ ~(v.type = "string" /\ v.val = "")
    /\ ~(v.type = "number" /\ v.val = "0")

Names == {"a", "b"}
Passwords == {"p", "q"}
Salts == {"s1"}
NoPhone == JUndef

(* Falsy values a required field can arrive with: absent, or the empty string. *)
Falsy == {JUndef, JStr("")}

(* Well-formed signup bodies, and a body whose password is a JSON number. *)
ValidSignupBodies ==
    [username : {JStr(n) : n \in Names}, email : {JStr(n) : n \in Names},
     password : {JStr("p")}, phone : {NoPhone}]
    \cup {[username |-> JStr("a"), email |-> JStr("b"), password |-> JNum("7"), phone |-> NoPhone]}

(* Bodies with one required field absent or empty. *)
InvalidSignupBodies ==
    LET base == [username |-> JStr("a"), email |-> JStr("a"), password |-> JStr("p"), phone |-> NoPhone]
    IN  {[base EXCEPT ![f] = v] : f \in {"username", "email", "password"}, v \in Falsy}

SignupBodies == ValidSignupBodies \cup InvalidSignupBodies

(* Well-formed login bodies, bodies whose usernameOrEmail is a JSON        *)
(* object, and a body whose password is a JSON number.                     *)
ValidLoginBodies ==
    [usernameOrEmail : {JStr(n) : n \in Names} \cup {JOp("$ne:null")},
     password : {JStr(p) : p \in Passwords}]
    \cup {[usernameOrEmail |-> JStr("a"), password |-> JNum("7")]}

InvalidLoginBodies ==
    LET base == [usernameOrEmail |-> JStr("a"), password |-> JStr("p")]
    IN  {[base EXCEPT ![f] = v] : f \in {"usernameOrEmail", "password"}, v \in Falsy}

LoginBodies == ValidLoginBodies \cup InvalidLoginBodies

ChatBodies == [message : {JStr("hi"), JStr(""), JUndef}]

-----------------------------------------------------------------------------
(* bcryptjs *)

(* A hash function that keeps the password as it is. *)
PlainText(password, salt) == [alg |-> "none", salt |-> "", digest |-> <<"", password>>]

(* bcrypt.hash(password, 10) of a string: a fresh salt, and a digest that   *)
(* depends on the salt and the password.                                   *)
BcryptHash(password, salt) == [alg |-> "bcrypt10", salt |-> salt, digest |-> <<salt, password>>]

(* bcrypt.compare(password, hash): re-hash with the salt kept in the hash. *)
BcryptCompare(password, hash) == BcryptHash(password, hash.salt) = hash

(* bcryptjs rejects with "Illegal arguments" unless the password is a string. *)
BcryptAccepts(v) == v.type = "string"

-----------------------------------------------------------------------------
(* The User collection: documents in insertion order. *)

UserDocs == {users[i] : i \in 1..Len(users)}

(* A schema whose email field lost its unique index. *)
UniqueViolationUsernameOnly(username, email) ==
    \E d \in UserDocs : d.username = username

(* The unique indexes on username and on email. *)
UniqueViolation(username, email) ==
    \E d \in UserDocs : d.username = username \/ d.email = email

(* { field: key } as a mongoose filter: equality with a string key; a key  *)
(* that is an object is taken as query operators, and {$ne: null} holds    *)
(* of every document, the field being required.                            *)
FieldMatches(value, key) ==
    IF key.type = "object" THEN key.val = "$ne:null" ELSE value = key.val

(* $or: [{ username: key }, { email: key }] *)
LoginMatches(key) ==
    {d \in UserDocs : FieldMatches(d.username, key) \/ FieldMatches(d.email, key)}

-----------------------------------------------------------------------------
(* Exchanges *)

NoExchange == [kind |-> "none"]
NoResponse == [status |-> 0, body |-> [none |-> ""]]

Exchange(kind, body, status, respBody, cause) ==
    [kind |-> kind, body |-> body, resp |-> [status |-> status, body |-> respBody], cause |-> cause]

Unanswered(kind, body, cause) ==
    [kind |-> kind, body |-> body, resp |-> NoResponse, cause |-> cause]

Add(req) == inflight (+) SetToBag({req})
Replace(req, next) == (inflight (-) SetToBag({req})) (+) SetToBag({next})
Remove(req) == inflight (-) SetToBag({req})
InFlight == BagToSet(inflight)
HasRoom == BagCardinality(inflight) < MaxInFlight

Init ==
    /\ users = <<>>
    /\ inflight = EmptyBag
    /\ last = NoExchange
    /\ alive = TRUE
    /\ runtime = "up"
    /\ created = {}
    /\ reported = "none"
    /\ waiter = [pc |-> "backend", i |-> 1, backendReady |-> FALSE, ollamaReady |-> FALSE,
                 polled |-> "none"]
    /\ starter = [pc |-> "probe", i |-> 1, probed |-> FALSE, pullIssued |-> FALSE]

(* A promise rejected outside any try block of an async handler.  What     *)
(* follows depends on the installed Express and Node: Express 4 ignores    *)
(* the rejection, so the request is never answered, and Node then either   *)
(* only warns or (from 15 on) exits; Express 5 passes it to its default    *)
(* error handler, which answers 500 with an HTML page.                     *)
RejectionOutcomes == {"hang", "exit", "html500"}

(* What the exit of the process leaves behind: the handlers are gone, but  *)
(* an insert that User.create has already sent is still with the store.    *)
SentInserts ==
    LET sent == {req \in InFlight : req.kind = "signup" /\ req.pc = "create"}
    IN  [o \in {[req EXCEPT !.pc = "sent"] : req \in sent} |-> inflight[[o EXCEPT !.pc = "create"]]]

Unhandled(req, cause, outcome) ==
    /\ UNCHANGED <<users, runtime, created, reported, waiter, starter>>
    /\ \/ /\ outcome = "hang"
          /\ inflight' = Remove(req)
          /\ alive' = alive
          /\ last' = Unanswered(req.kind, req.body, cause)
       \/ /\ outcome = "exit"
          /\ inflight' = SentInserts
          /\ alive' = FALSE
          /\ last' = Unanswered(req.kind, req.body, cause)
       \/ /\ outcome = "html500"
          /\ inflight' = Remove(req)
          /\ alive' = alive
          /\ last' = Exchange(req.kind, req.body, 500, [html |-> "Internal Server Error"], cause)

-----------------------------------------------------------------------------
(* POST /signup *)

(* A handler that starts hashing before it looks at the fields. *)
SignupReceiveUnvalidated(body) ==
    /\ alive
    /\ HasRoom
    /\ inflight' = Add([kind |-> "signup", pc |-> "hash", body |-> body])
    /\ last' = NoExchange
    /\ UNCHANGED <<users, alive, runtime, created, reported, waiter, starter>>

SignupReceive(body) ==
    /\ alive
    /\ IF ~Truthy(body.username) \/ ~Truthy(body.email) \/ ~Truthy(body.password)
       THEN /\ last' = Exchange("signup", body, 400, [error |-> "Missing fields"], "missing")
            /\ inflight' = inflight
       ELSE /\ HasRoom
            /\ inflight' = Add([kind |-> "signup", pc |-> "hash", body |-> body])
            /\ last' = NoExchange
    /\ UNCHANGED <<users, alive, runtime, created, reported, waiter, starter>>

SignupHashed(req) ==
    /\ alive
    /\ req \in InFlight /\ req.kind = "signup" /\ req.pc = "hash"
    /\ IF BcryptAccepts(req.body.password)
       THEN \E salt \in Salts :
              /\ inflight' = Replace(req, [kind |-> "signup", pc |-> "create", body |-> req.body,
                                           passwordHash |-> BcryptHash(req.body.password.val, salt)])
              /\ last' = NoExchange
              /\ UNCHANGED <<users, alive, runtime, created, reported, waiter, starter>>
       ELSE \E outcome \in RejectionOutcomes : Unhandled(req, "hash-rejected", outcome)

NewUser(req) ==
    [id |-> Len(users) + 1, username |-> req.body.username.val, email |-> req.body.email.val,
     passwordHash |-> req.passwordHash, phone |-> req.body.phone]

(* res.status(400).json({ error: 'User already exists or invalid data' }) *)
SignupConflictResponse ==
    [status |-> 400, body |-> [error |-> "User already exists or invalid data"]]

(* A catch block that tells the client what the store objected to. *)
SignupCreateRevealing(req, storeOk) ==
    /\ alive
    /\ req \in InFlight /\ req.kind = "signup" /\ req.pc = "create"
    /\ inflight' = Remove(req)
    /\ IF storeOk /\ ~UniqueViolation(req.body.username.val, req.body.email.val)
       THEN /\ users' = Append(users, NewUser(req))
            /\ last' = Exchange("signup", req.body, 201,
                                [message |-> "User created", userId |-> NewUser(req).id], "created")
            /\ created' = created \cup {[userId |-> NewUser(req).id, body |-> req.body]}
       ELSE /\ users' = users
            /\ last' = [kind |-> "signup", body |-> req.body,
                        resp |-> [status |-> 400,
                                  body |-> [error |-> IF ~storeOk THEN "Invalid data"
                                                      ELSE IF \E d \in UserDocs :
                                                                d.username = req.body.username.val
                                                      THEN "Username already exists"
                                                      ELSE "Email already exists"]],
                        cause |-> IF storeOk THEN "duplicate" ELSE "store-error"]
            /\ created' = created
    /\ UNCHANGED <<alive, runtime, reported, waiter, starter>>

(* A handler that writes over the record that has the username already. *)
SignupCreateUpsert(req, storeOk) ==
    /\ alive
    /\ req \in InFlight /\ req.kind = "signup" /\ req.pc = "create"
    /\ inflight' = Remove(req)
    /\ IF storeOk /\ ~UniqueViolation(req.body.username.val, req.body.email.val)
       THEN /\ users' = Append(users, NewUser(req))
            /\ last' = Exchange("signup", req.body, 201,
                                [message |-> "User created", userId |-> NewUser(req).id], "created")
            /\ created' = created \cup {[userId |-> NewUser(req).id, body |-> req.body]}
       ELSE /\ users' = IF storeOk /\ \E i \in 1..Len(users) : users[i].username = req.body.username.val
                        THEN LET i == CHOOSE n \in 1..Len(users) :
                                            users[n].username = req.body.username.val
                             IN  [users EXCEPT ![i] = [NewUser(req) EXCEPT !.id = i]]
                        ELSE users
            /\ last' = [kind |-> "signup", body |-> req.body, resp |-> SignupConflictResponse,
                        cause |-> IF storeOk THEN "duplicate" ELSE "store-error"]
            /\ created' = created
    /\ UNCHANGED <<alive, runtime, reported, waiter, starter>>

(* User.create inserts, or rejects: a unique index is violated, or the     *)
(* store cannot be reached.  The insert is one atomic store operation.     *)
SignupCreate(req, storeOk) ==
    /\ alive
    /\ req \in InFlight /\ req.kind = "signup" /\ req.pc = "create"
    /\ inflight' = Remove(req)
    /\ IF storeOk /\ ~UniqueViolation(req.body.username.val, req.body.email.val)
       THEN /\ users' = Append(users, NewUser(req))
            /\ last' = Exchange("signup", req.body, 201,
                                [message |-> "User created", userId |-> NewUser(req).id], "created")
            /\ created' = created \cup {[userId |-> NewUser(req).id, body |-> req.body]}
       ELSE /\ users' = users
            /\ last' = [kind |-> "signup", body |-> req.body, resp |-> SignupConflictResponse,
                        cause |-> IF storeOk THEN "duplicate" ELSE "store-error"]
            /\ created' = created
    /\ UNCHANGED <<alive, runtime, reported, waiter, starter>>

(* The store handles an insert whose process has exited: the record is     *)
(* written unless a unique index forbids it or the insert never arrived,   *)
(* and nobody is left to answer the request.  The store is done with it   *)
(* long before the container is up again.                                  *)
SignupCreateAfterExit(req, arrived) ==
    /\ ~alive
    /\ req \in InFlight /\ req.kind = "signup" /\ req.pc = "sent"
    /\ inflight' = Remove(req)
    /\ last' = Unanswered("signup", req.body, "process-exited")
    /\ users' = IF arrived /\ ~UniqueViolation(req.body.username.val, req.body.email.val)
                THEN Append(users, NewUser(req))
                ELSE users
    /\ UNCHANGED <<alive, runtime, created, reported, waiter, starter>>

-----------------------------------------------------------------------------
(* POST /login *)

(* res.status(401).json({ error: 'Invalid credentials' }) *)
InvalidCredentials == [status |-> 401, body |-> [error |-> "Invalid credentials"]]

LoginReceive(body) ==
    /\ alive
    /\ IF ~Truthy(body.usernameOrEmail) \/ ~Truthy(body.password)
       THEN /\ last' = Exchange("login", body, 400, [error |-> "Missing fields"], "missing")
            /\ inflight' = inflight
       ELSE /\ HasRoom
            /\ inflight' = Add([kind |-> "login", pc |-> "find", body |-> body])
            /\ last' = NoExchange
    /\ UNCHANGED <<users, alive, runtime, created, reported, waiter, starter>>

(* A lookup that tells an unknown user from a wrong password. *)
LoginFindReveals(req, storeOk) ==
    /\ alive
    /\ req \in InFlight /\ req.kind = "login" /\ req.pc = "find"
    /\ IF ~storeOk
       THEN \E outcome \in RejectionOutcomes : Unhandled(req, "find-rejected", outcome)
       ELSE /\ IF LoginMatches(req.body.usernameOrEmail) = {}
               THEN /\ inflight' = Remove(req)
                    /\ last' = [kind |-> "login", body |-> req.body,
                                resp |-> [status |-> 404, body |-> [error |-> "User not found"]],
                                cause |-> "no-record"]
               ELSE \E user \in LoginMatches(req.body.usernameOrEmail) :
                      /\ inflight' = Replace(req, [kind |-> "login", pc |-> "compare",
                                                   body |-> req.body, user |-> user])
                      /\ last' = NoExchange
            /\ UNCHANGED <<users, alive, runtime, created, reported, waiter, starter>>

(* User.findOne({ $or: [...] }) settles.  With no record the handler       *)
(* answers at once; with one it goes on to bcrypt.compare.  When two       *)
(* records match, which one the store returns is up to the store.          *)
LoginFind(req, storeOk) ==
    /\ alive
    /\ req \in InFlight /\ req.kind = "login" /\ req.pc = "find"
    /\ IF ~storeOk
       THEN \E outcome \in RejectionOutcomes : Unhandled(req, "find-rejected", outcome)
       ELSE /\ IF LoginMatches(req.body.usernameOrEmail) = {}
               THEN /\ inflight' = Remove(req)
                    /\ last' = [kind |-> "login", body |-> req.body,
                                resp |-> InvalidCredentials, cause |-> "no-record"]
               ELSE \E user \in LoginMatches(req.body.usernameOrEmail) :
                      /\ inflight' = Replace(req, [kind |-> "login", pc |-> "compare",
                                                   body |-> req.body, user |-> user])
                      /\ last' = NoExchange
            /\ UNCHANGED <<users, alive, runtime, created, reported, waiter, starter>>

(* A handler that answers a verified login with the whole record. *)
LoginCompareWholeRecord(req) ==
    /\ alive
    /\ req \in InFlight /\ req.kind = "login" /\ req.pc = "compare"
    /\ IF ~BcryptAccepts(req.body.password)
       THEN \E outcome \in RejectionOutcomes : Unhandled(req, "compare-rejected", outcome)
       ELSE /\ inflight' = Remove(req)
            /\ IF BcryptCompare(req.body.password.val, req.user.passwordHash)
               THEN last' = Exchange("login", req.body, 200,
                                     [message |-> "Login successful", userId |-> req.user.id,
                                      username |-> req.user.username, email |-> req.user.email,
                                      phone |-> req.user.phone,
                                      passwordHash |-> req.user.passwordHash], "verified")
               ELSE last' = [kind |-> "login", body |-> req.body,
                             resp |-> InvalidCredentials, cause |-> "mismatch"]
            /\ UNCHANGED <<users, alive, runtime, created, reported, waiter, starter>>

LoginCompare(req) ==
    /\ alive
    /\ req \in InFlight /\ req.kind = "login" /\ req.pc = "compare"
    /\ IF ~BcryptAccepts(req.body.password)
       THEN \E outcome \in RejectionOutcomes : Unhandled(req, "compare-rejected", outcome)
       ELSE /\ inflight' = Remove(req)
            /\ IF BcryptCompare(req.body.password.val, req.user.passwordHash)
               THEN last' = Exchange("login", req.body, 200,
                                     [message |-> "Login successful", userId |-> req.user.id,
                                      username |-> req.user.username, email |-> req.user.email,
                                      phone |-> req.user.phone], "verified")
               ELSE last' = [kind |-> "login", body |-> req.body,
                             resp |-> InvalidCredentials, cause |-> "mismatch"]
            /\ UNCHANGED <<users, alive, runtime, created, reported, waiter, starter>>

(* docker-compose restarts the backend container (restart: unless-stopped). *)
Restart ==
    /\ ~alive
    /\ inflight = EmptyBag
    /\ alive' = TRUE
    /\ last' = NoExchange
    /\ UNCHANGED <<users, inflight, runtime, created, reported, waiter, starter>>

NextAuth ==
    \/ \E body \in SignupBodies : SignupReceive(body)
    \/ \E req \in InFlight : SignupHashed(req)
    \/ \E req \in InFlight, storeOk \in BOOLEAN : SignupCreate(req, storeOk)
    \/ \E req \in InFlight, arrived \in BOOLEAN : SignupCreateAfterExit(req, arrived)
    \/ \E body \in LoginBodies : LoginReceive(body)
    \/ \E req \in InFlight, storeOk \in BOOLEAN : LoginFind(req, storeOk)
    \/ \E req \in InFlight : LoginCompare(req)
    \/ Restart

SpecAuth == Init /\ [][NextAuth]_vars

-----------------------------------------------------------------------------
(* The Ollama runtime, as axios sees it. *)

RequiredModel == "llama3.2:1b-instruct-q4_K_M"

(* up: answers; refused: nothing listens on the port; nohost: the host     *)
(* name does not resolve; nomodel: answers, without the required model;    *)
(* error: answers 500; silent: accepts the connection and never answers;   *)
(* garbled: answers 200 with a body that is not the documented one.        *)
RuntimeModes == {"up", "refused", "nohost", "nomodel", "error", "silent", "garbled"}

(* The modes in which a request is answered with a 2xx status. *)
Answering == {"up", "garbled"}

(* The `response` field of a generate answer: a text, the empty text, or absent. *)
GenerateReplies == {JStr("hello"), JStr(""), JUndef}

(* 2xx statuses a generate answer can carry (axios resolves on 2xx only). *)
GenerateStatuses == {200, 204}

(* The error axios rejects with, by what the runtime does. *)
AxiosError(mode, timeoutMsg) ==
    CASE mode = "refused" -> [code |-> "ECONNREFUSED", status |-> 0, message |-> "connect ECONNREFUSED"]
      [] mode = "nohost"  -> [code |-> "ENOTFOUND", status |-> 0, message |-> "getaddrinfo ENOTFOUND"]
      [] mode = "nomodel" -> [code |-> "ERR_BAD_REQUEST", status |-> 404,
                              message |-> "Request failed with status code 404"]
      [] mode = "error"   -> [code |-> "ERR_BAD_RESPONSE", status |-> 500,
                              message |-> "Request failed with status code 500"]
      [] mode = "silent"  -> [code |-> "ECONNABORTED", status |-> 0, message |-> timeoutMsg]

(* Entries of a model list: a model object with its name, or null. *)
Model(name) == [type |-> "object", name |-> name]
NullEntry == [type |-> "null", name |-> ""]

(* The body of a GET /api/tags answer: its `models` is a list, is absent,  *)
(* or is something that is no array.                                       *)
Listing(models) == [shape |-> "list", models |-> models]
NoModelsField == [shape |-> "absent", models |-> <<>>]
ModelsNotArray == [shape |-> "notarray", models |-> <<>>]

(* Bodies GET /api/tags can answer with, by what the runtime does. *)
TagsData(mode) ==
    CASE mode = "nomodel" ->
           {Listing(<<>>), Listing(<<Model("other")>>), Listing(<<Model("llama3.2:1b")>>)}
      [] mode = "garbled" ->
           {NoModelsField, ModelsNotArray, Listing(<<Model(RequiredModel), NullEntry>>)}
      [] OTHER ->
           {Listing(<<Model(RequiredModel)>>), Listing(<<Model("other"), Model(RequiredModel)>>)}

SetRuntime(mode) ==
    /\ alive
    /\ mode # runtime
    /\ runtime' = mode
    /\ last' = NoExchange
    /\ UNCHANGED <<users, inflight, alive, created, reported, waiter, starter>>

-----------------------------------------------------------------------------
(* POST /chat *)

(* A chat exchange: also the calls the handler made to the runtime, and    *)
(* what its generate call settled with.                                    *)
ChatExchange(req, resp, cause, gen) ==
    [kind |-> "chat", body |-> req.body, resp |-> resp, cause |-> cause,
     calls |-> req.calls, tagsOk |-> req.tagsOk, modelListed |-> req.modelListed,
     gen |-> gen, upstream |-> gen.response]

Answer(status, response) ==
    [settled |-> "answer", status |-> status, response |-> response, code |-> "", message |-> ""]

Failure(err) ==
    [settled |-> "error", status |-> err.status, response |-> JUndef,
     code |-> err.code, message |-> err.message]

(* A handler that asks the runtime before it looks at the message. *)
ChatReceiveUnvalidated(body) ==
    /\ alive
    /\ HasRoom
    /\ inflight' = Add([kind |-> "chat", pc |-> "tags", body |-> body, calls |-> <<"tags">>])
    /\ last' = NoExchange
    /\ UNCHANGED <<users, alive, runtime, created, reported, waiter, starter>>

ChatReceive(body) ==
    /\ alive
    /\ IF ~Truthy(body.message)
       THEN /\ last' = [kind |-> "chat", body |-> body, cause |-> "missing", calls |-> <<>>,
                        resp |-> [status |-> 400, body |-> [error |-> "No message provided."]]]
            /\ inflight' = inflight
       ELSE /\ HasRoom
            /\ inflight' = Add([kind |-> "chat", pc |-> "tags", body |-> body, calls |-> <<"tags">>])
            /\ last' = NoExchange
    /\ UNCHANGED <<users, alive, runtime, created, reported, waiter, starter>>

(* modelsResponse.data, as logged: the required model is among the models. *)
ListsRequiredModel(data) ==
    /\ data.shape = "list"
    /\ \E i \in 1..Len(data.models) :
         data.models[i].type = "object" /\ data.models[i].name = RequiredModel

(* A handler that gives up when the model list cannot be fetched. *)
ChatTagsGating(req) ==
    /\ alive
    /\ req \in InFlight /\ req.kind = "chat" /\ req.pc = "tags"
    /\ runtime # "silent"
    /\ IF runtime \in Answering \cup {"nomodel"}
       THEN /\ \E data \in TagsData(runtime) :
                 inflight' = Replace(req, [kind |-> "chat", pc |-> "generate", body |-> req.body,
                                           calls |-> <<"tags", "generate">>, tagsOk |-> TRUE,
                                           modelListed |-> ListsRequiredModel(data)])
            /\ last' = NoExchange
       ELSE /\ inflight' = Remove(req)
            /\ last' = [kind |-> "chat", body |-> req.body, cause |-> "gated", calls |-> req.calls,
                        resp |-> [status |-> 503, body |-> [error |-> "Ollama is not healthy."]]]
    /\ UNCHANGED <<users, alive, runtime, created, reported, waiter, starter>>

(* axios.get(/api/tags) settles; its result or error is only logged, and   *)
(* axios.post(/api/generate) is issued.  The first call has no timeout, so *)
(* it stays pending while the runtime is silent.                           *)
ChatTags(req) ==
    /\ alive
    /\ req \in InFlight /\ req.kind = "chat" /\ req.pc = "tags"
    /\ runtime # "silent"
    /\ IF runtime \in Answering \cup {"nomodel"}
       THEN \E data \in TagsData(runtime) :
              inflight' = Replace(req, [kind |-> "chat", pc |-> "generate", body |-> req.body,
                                        calls |-> <<"tags", "generate">>, tagsOk |-> TRUE,
                                        modelListed |-> ListsRequiredModel(data)])
       ELSE inflight' = Replace(req, [kind |-> "chat", pc |-> "generate", body |-> req.body,
                                      calls |-> <<"tags", "generate">>, tagsOk |-> FALSE,
                                      modelListed |-> FALSE])
    /\ last' = NoExchange
    /\ UNCHANGED <<users, alive, runtime, created, reported, waiter, starter>>

(* const reply = ollamaResponse.data.response || 'No response from AI model.' *)
ChatReply(response) ==
    IF Truthy(response) THEN response.val ELSE "No response from AI model."

(* A catch block without the branch for ENOTFOUND. *)
ChatErrorResponseNoHostBranch(err) ==
    IF err.code = "ECONNREFUSED"
    THEN [status |-> 503,
          body |-> [error |-> "Cannot connect to Ollama service. Please ensure Ollama is running."]]
    ELSE IF err.status = 404
    THEN [status |-> 404,
          body |-> [error |-> "The specified AI model is not available. Please check if llama3.2:1b-instruct-q4_K_M is installed."]]
    ELSE [status |-> 500,
          body |-> [error |-> <<"Failed to get response from Ollama: ", err.message>>]]

(* The catch block of the chat handler. *)
ChatErrorResponse(err) ==
    IF err.code = "ECONNREFUSED"
    THEN [status |-> 503,
          body |-> [error |-> "Cannot connect to Ollama service. Please ensure Ollama is running."]]
    ELSE IF err.status = 404
    THEN [status |-> 404,
          body |-> [error |-> "The specified AI model is not available. Please check if llama3.2:1b-instruct-q4_K_M is installed."]]
    ELSE IF err.code = "ENOTFOUND"
    THEN [status |-> 503,
          body |-> [error |-> "Ollama service not found. Please check your network configuration."]]
    ELSE [status |-> 500,
          body |-> [error |-> <<"Failed to get response from Ollama: ", err.message>>]]

(* A handler that stops asking the runtime after a bad health report. *)
ChatSettledBreaker(req, gen) ==
    IF gen.settled = "error" /\ reported = "unhealthy"
    THEN ChatExchange(req, [status |-> 503, body |-> [error |-> "Ollama is unhealthy, try again later."]],
                      "breaker", gen)
    ELSE IF gen.settled = "error"
    THEN ChatExchange(req, ChatErrorResponse(gen), gen.code, gen)
    ELSE IF gen.status # 200
    THEN ChatExchange(req, [status |-> 500, body |-> [error |-> "Ollama API error."]], "not-200", gen)
    ELSE ChatExchange(req, [status |-> 200, body |-> [reply |-> ChatReply(gen.response)]],
                      "generated", gen)

(* A handler that takes any answer of the runtime for a reply. *)
ChatSettledAnyStatus(req, gen) ==
    IF gen.settled = "error"
    THEN ChatExchange(req, ChatErrorResponse(gen), gen.code, gen)
    ELSE ChatExchange(req, [status |-> 200, body |-> [reply |-> ChatReply(gen.response)]],
                      "generated", gen)

(* What the handler answers once its generate call has settled with gen. *)
ChatSettled(req, gen) ==
    IF gen.settled = "error"
    THEN ChatExchange(req, ChatErrorResponse(gen), gen.code, gen)
    ELSE IF gen.status # 200
    THEN ChatExchange(req, [status |-> 500, body |-> [error |-> "Ollama API error."]], "not-200", gen)
    ELSE ChatExchange(req, [status |-> 200, body |-> [reply |-> ChatReply(gen.response)]],
                      "generated", gen)

(* What the generate call can settle with, by what the runtime does. *)
GenerateOutcomes ==
    CASE runtime = "up" ->
           {Answer(status, response) : status \in GenerateStatuses, response \in GenerateReplies}
      [] runtime = "garbled" -> {Answer(200, JUndef)}
      [] OTHER -> {Failure(AxiosError(runtime, "timeout of 30000ms exceeded"))}

(* A handler that sends the generate request again when it failed. *)
ChatGenerateRetrying(req) ==
    /\ alive
    /\ req \in InFlight /\ req.kind = "chat" /\ req.pc = "generate"
    /\ \E gen \in GenerateOutcomes :
         IF gen.settled = "error" /\ Len(req.calls) < 3
         THEN /\ inflight' = Replace(req, [req EXCEPT !.calls = Append(req.calls, "generate")])
              /\ last' = NoExchange
         ELSE /\ inflight' = Remove(req)
              /\ last' = ChatSettled(req, gen)
    /\ UNCHANGED <<users, alive, runtime, created, reported, waiter, starter>>

(* axios.post(/api/generate, ..., { timeout: 30000 }) settles. *)
ChatGenerate(req) ==
    /\ alive
    /\ req \in InFlight /\ req.kind = "chat" /\ req.pc = "generate"
    /\ inflight' = Remove(req)
    /\ \E gen \in GenerateOutcomes : last' = ChatSettled(req, gen)
    /\ UNCHANGED <<users, alive, runtime, created, reported, waiter, starter>>

(* Verbs other than POST that a client can send to /chat. *)
OtherVerbs == {"GET", "PUT", "DELETE", "PATCH", "HEAD", "OPTIONS"}

(* app.use(cors()): the middleware ends every OPTIONS request itself, as a *)
(* preflight, with 204 and no body.                                        *)
CorsPreflight ==
    [status |-> 204, allow |-> "", body |-> [none |-> ""]]

(* app.use(express.json()): a JSON body that does not parse is passed to   *)
(* Express's error handler as a 400, which answers with an HTML page.      *)
JsonParseError ==
    [status |-> 400, allow |-> "", body |-> [html |-> "Bad Request"]]

(* app.all('/chat') *)
MethodNotAllowed ==
    [status |-> 405, allow |-> "POST",
     body |-> [error |-> "Method Not Allowed. Only POST is supported on this endpoint."]]

(* A request to /chat with another verb than POST goes through cors(),     *)
(* express.json() and then app.all('/chat').                               *)
ChatOtherVerb(method, bodyParses) ==
    /\ alive
    /\ method # "POST"
    /\ last' = [kind |-> "chat-verb", body |-> [method |-> method, bodyParses |-> bodyParses],
                resp |-> IF method = "OPTIONS" THEN CorsPreflight
                         ELSE IF ~bodyParses THEN JsonParseError
                         ELSE MethodNotAllowed,
                cause |-> "verb", calls |-> <<>>]
    /\ UNCHANGED <<users, inflight, alive, runtime, created, reported, waiter, starter>>

-----------------------------------------------------------------------------
(* GET /health/ollama *)

HealthReceive ==
    /\ alive
    /\ HasRoom
    /\ inflight' = Add([kind |-> "health", pc |-> "tags", body |-> [none |-> ""]])
    /\ last' = NoExchange
    /\ UNCHANGED <<users, alive, runtime, created, reported, waiter, starter>>

(* const models = response.data.models || [] *)
ListedModels(data) == IF data.shape = "absent" THEN <<>> ELSE data.models

(* models.some(...) throws when models is no array; model.name throws on   *)
(* a null entry, in models.some or, at the latest, in models.map.          *)
ListingThrows(data) ==
    \/ data.shape = "notarray"
    \/ \E i \in 1..Len(ListedModels(data)) : ListedModels(data)[i].type = "null"

ListingError(data) ==
    IF data.shape = "notarray" THEN "models.some is not a function"
    ELSE "Cannot read properties of null (reading 'name')"

(* A check that takes any listed model for the required one. *)
HasAnyModel(models) == Len(models) > 0

(* models.some(model => model.name === 'llama3.2:1b-instruct-q4_K_M') *)
HasRequiredModel(models) == \E i \in 1..Len(models) : models[i].name = RequiredModel

(* models.map(m => m.name) *)
ModelNames(models) == [i \in 1..Len(models) |-> models[i].name]

(* A catch block that answers 200 with the error inside the body. *)
UnhealthyAs200(message) == [status |-> 200, body |-> [status |-> "unhealthy", error |-> message]]

(* res.status(503).json({ status: 'unhealthy', error: error.message, ... }) *)
Unhealthy(message) == [status |-> 503, body |-> [status |-> "unhealthy", error |-> message]]

(* What the handler answers to a listing that was fetched. *)
HealthReport(data) ==
    IF ListingThrows(data)
    THEN Unhealthy(ListingError(data))
    ELSE [status |-> 200,
          body |-> [status |-> "healthy", models_available |-> Len(ListedModels(data)),
                    required_model_available |-> HasRequiredModel(ListedModels(data)),
                    models |-> ModelNames(ListedModels(data))]]

(* axios.get(/api/tags, { timeout: 5000 }) settles. *)
HealthTags(req) ==
    /\ alive
    /\ req \in InFlight /\ req.kind = "health" /\ req.pc = "tags"
    /\ inflight' = Remove(req)
    /\ IF runtime \in Answering \cup {"nomodel"}
       THEN \E data \in TagsData(runtime) :
              last' = [kind |-> "health", body |-> req.body, resp |-> HealthReport(data),
                       cause |-> "listed", listing |-> data]
       ELSE LET err == AxiosError(runtime, "timeout of 5000ms exceeded")
            IN  last' = [kind |-> "health", body |-> req.body, resp |-> Unhealthy(err.message),
                         cause |-> err.code, listing |-> [shape |-> "none", models |-> <<>>]]
    /\ reported' = last'.resp.body.status
    /\ UNCHANGED <<users, alive, runtime, created, waiter, starter>>

NextChat ==
    \/ \E body \in ChatBodies : ChatReceive(body)
    \/ \E req \in InFlight : ChatTags(req)
    \/ \E req \in InFlight : ChatGenerate(req)
    \/ \E method \in OtherVerbs, bodyParses \in BOOLEAN : ChatOtherVerb(method, bodyParses)
    \/ HealthReceive
    \/ \E req \in InFlight : HealthTags(req)
    \/ \E mode \in RuntimeModes : SetRuntime(mode)

SpecChat == Init /\ [][NextChat]_vars

(* The runtime's answers are delivered: a call settles once the runtime    *)
(* answers or refuses it, or once its timeout, if it has one, runs out.    *)
ChatFairness ==
    /\ SF_vars(\E req \in InFlight : ChatTags(req))
    /\ WF_vars(\E req \in InFlight : ChatGenerate(req))
    /\ WF_vars(\E req \in InFlight : HealthTags(req))

FairSpecChat == SpecChat /\ ChatFairness

-----------------------------------------------------------------------------
(* wait_for_services of deploy-ai-chat.sh and quick-deploy.sh *)

(* for i in {1..60}: polls of the backend's root. *)
BackendAttempts == 60

(* for i in {1..180}: polls of /health/ollama. *)
OllamaAttempts == 180

(* The characters of the words the health body's status can be. *)
Chars(word) ==
    CASE word = "healthy"   -> <<"h", "e", "a", "l", "t", "h", "y">>
      [] word = "unhealthy" -> <<"u", "n", "h", "e", "a", "l", "t", "h", "y">>

(* What curl -s prints for a health response: the JSON text of the body,   *)
(* whatever the status code is.  The text before and after the value of    *)
(* `status` is kept as one piece each; the word is in neither.             *)
BodyText(body) ==
    <<"{\"status\":\"">> \o Chars(body.status) \o <<"\",...}">>

(* grep -q pattern: the text has the pattern somewhere in it. *)
GrepQ(pattern, text) ==
    \E k \in 0..Len(text) :
        k + Len(pattern) <= Len(text) /\ SubSeq(text, k + 1, k + Len(pattern)) = pattern

(* One round of the first loop: curl -s http://localhost:3001/ succeeds    *)
(* when the backend answers, and the loop is left; otherwise the script    *)
(* sleeps and tries again, and goes on all the same after the last round.  *)
WaitBackend(answers) ==
    /\ waiter.pc = "backend"
    /\ answers => alive
    /\ waiter' = IF answers
                 THEN [waiter EXCEPT !.pc = "ollama", !.i = 1, !.backendReady = TRUE]
                 ELSE IF waiter.i < BackendAttempts
                 THEN [waiter EXCEPT !.i = waiter.i + 1]
                 ELSE [waiter EXCEPT !.pc = "ollama", !.i = 1]
    /\ last' = NoExchange
    /\ UNCHANGED <<users, inflight, alive, runtime, created, reported, starter>>

(* One round of the second loop: curl -s .../health/ollama | grep -q       *)
(* "healthy".  The health exchange just finished is the poll's; when the   *)
(* backend does not answer, curl prints nothing.  A match prints 'Ollama   *)
(* is ready' and leaves the loop; otherwise the script sleeps and tries    *)
(* again, up to the last round.                                            *)
WaitOllama(answered) ==
    /\ waiter.pc = "ollama"
    /\ answered => last.kind = "health"
    /\ LET status == IF answered THEN last.resp.body.status ELSE ""
           text == IF answered THEN BodyText(last.resp.body) ELSE <<>>
           found == GrepQ(Chars("healthy"), text)
       IN  waiter' = IF found
                     THEN [waiter EXCEPT !.pc = "done", !.ollamaReady = TRUE, !.polled = status]
                     ELSE IF waiter.i < OllamaAttempts
                     THEN [waiter EXCEPT !.i = waiter.i + 1, !.polled = status]
                     ELSE [waiter EXCEPT !.pc = "done", !.polled = status]
    /\ last' = NoExchange
    /\ UNCHANGED <<users, inflight, alive, runtime, created, reported, starter>>

NextDeploy ==
    \/ \E answers \in BOOLEAN : WaitBackend(answers)
    \/ HealthReceive
    \/ \E req \in InFlight : HealthTags(req)
    \/ \E answered \in BOOLEAN : WaitOllama(answered)
    \/ \E mode \in RuntimeModes : SetRuntime(mode)

SpecDeploy == Init /\ [][NextDeploy]_vars

-----------------------------------------------------------------------------
(* ollama/start.sh *)

(* for i in $(seq 1 30): probes of the local server. *)
StartProbes == 30

(* The local server answers a request with a 2xx status. *)
ServerAnswers == runtime \in Answering \cup {"nomodel"}

(* One round of the loop: curl -f http://localhost:11434/api/tags succeeds *)
(* on a 2xx answer and the loop is left; otherwise the script sleeps and   *)
(* tries again, and after the last round it goes on to the pull all the    *)
(* same.  curl has no time limit, so it waits as long as the server is     *)
(* silent.                                                                 *)
StartProbe ==
    /\ starter.pc = "probe"
    /\ runtime # "silent"
    /\ starter' = IF ServerAnswers
                  THEN [starter EXCEPT !.pc = "pull", !.probed = TRUE]
                  ELSE IF starter.i < StartProbes
                  THEN [starter EXCEPT !.i = starter.i + 1]
                  ELSE [starter EXCEPT !.pc = "pull"]
    /\ last' = NoExchange
    /\ UNCHANGED <<users, inflight, alive, runtime, created, reported, waiter>>

(* ollama pull llama3.2:1b-instruct-q4_K_M: asks the local server to fetch *)
(* the model.  It fails when the server does not answer or the download    *)
(* does, and set -e then ends the script.                                  *)
StartPull(downloaded) ==
    /\ starter.pc = "pull"
    /\ runtime # "silent"
    /\ starter' = IF ServerAnswers /\ downloaded
                  THEN [starter EXCEPT !.pc = "list", !.pullIssued = TRUE]
                  ELSE [starter EXCEPT !.pc = "exited", !.pullIssued = TRUE]
    /\ last' = NoExchange
    /\ UNCHANGED <<users, inflight, alive, runtime, created, reported, waiter>>

(* ollama list, then echo "Model pulled successfully! Ollama is ready to   *)
(* serve requests." and wait $OLLAMA_PID.                                  *)
StartList ==
    /\ starter.pc = "list"
    /\ runtime # "silent"
    /\ starter' = IF ServerAnswers
                  THEN [starter EXCEPT !.pc = "ready"]
                  ELSE [starter EXCEPT !.pc = "exited"]
    /\ last' = NoExchange
    /\ UNCHANGED <<users, inflight, alive, runtime, created, reported, waiter>>

NextStart ==
    \/ StartProbe
    \/ \E downloaded \in BOOLEAN : StartPull(downloaded)
    \/ StartList
    \/ \E mode \in RuntimeModes : SetRuntime(mode)

SpecStart == Init /\ [][NextStart]_vars

-----------------------------------------------------------------------------
(* Properties *)

IsLogin == last.kind = "login"
IsSignup == last.kind = "signup"
IsChat == last.kind = "chat"

(* C1: once a signup was answered 201 with a userId, every later login     *)
(* (whose store lookup completes) with that signup's username or email as  *)
(* usernameOrEmail and the same password is answered 200 with that userId. *)
C1_SignupLoginRoundTrip ==
    (IsLogin /\ last.cause # "find-rejected") =>
        \A c \in created :
            (/\ last.body.usernameOrEmail \in {c.body.username, c.body.email}
             /\ last.body.password = c.body.password)
            => (last.resp.status = 200 /\ last.resp.body.userId = c.userId)

(* C2: no two stored User records share a username, and no two share an    *)
(* email, whatever the interleaving of the signups in flight.              *)
C2_UniqueUsers ==
    \A i, j \in 1..Len(users) :
        i # j => (users[i].username # users[j].username /\ users[i].email # users[j].email)

(* Two records are stored, the second one just created while another       *)
(* signup had already hashed its password and was waiting to insert.       *)
C2_Witness ==
    /\ Len(users) = 2
    /\ IsSignup /\ last.resp.status = 201
    /\ \E req \in InFlight : req.kind = "signup" /\ req.pc = "create"

(* The signup just finished reuses the username or the email of a record   *)
(* of `docs`.                                                              *)
Reuses(exchange, docs) ==
    \E d \in docs : d.username = exchange.body.username.val \/ d.email = exchange.body.email.val

(* The stored records other than the one the exchange just created. *)
StoredBefore == {d \in UserDocs : last.resp.status = 201 => d.id # last.resp.body.userId}

(* C3: a signup (with username, email and password all present) whose      *)
(* username or email already belongs to a stored record is answered with   *)
(* the 400 conflict response and leaves the store as it was.               *)
C3_DuplicateConflict ==
    (/\ IsSignup
     /\ Truthy(last.body.username) /\ Truthy(last.body.email) /\ Truthy(last.body.password)
     /\ Reuses(last, StoredBefore))
    => last.resp = [status |-> 400, body |-> [error |-> "User already exists or invalid data"]]

(* The stored records whose username or whose email equals the login's     *)
(* usernameOrEmail.                                                        *)
KeyOwners ==
    {d \in UserDocs : JStr(d.username) = last.body.usernameOrEmail
                      \/ JStr(d.email) = last.body.usernameOrEmail}

(* The password of the login re-hashed with the salt of d's hash is d's hash. *)
Verifies(d) == BcryptHash(last.body.password.val, d.passwordHash.salt) = d.passwordHash

(* C4: a login (with both fields present, whose lookup and comparison      *)
(* complete) answered 200 returns a record whose username or email equals  *)
(* usernameOrEmail and whose hash verifies the password; and a login whose *)
(* usernameOrEmail equals no stored username and no stored email is        *)
(* answered 401.                                                           *)
C4_LoginOnlyByKey ==
    (/\ IsLogin
     /\ Truthy(last.body.usernameOrEmail) /\ Truthy(last.body.password)
     /\ last.cause \notin {"find-rejected", "compare-rejected"})
    => /\ last.resp.status = 200 =>
            \E d \in KeyOwners : d.id = last.resp.body.userId /\ Verifies(d)
       /\ KeyOwners = {} => last.resp.status = 401

(* C5: for every login key, at most one stored record has that username    *)
(* or that email.                                                          *)
C5_OneCandidate ==
    \A key \in Names :
        Cardinality({d \in UserDocs : d.username = key \/ d.email = key}) <= 1

C7_EveryFailureAnswered ==
    last.kind # "none" =>
        /\ last.resp.status # 0
        /\ last.resp.status >= 400 => "error" \in DOMAIN last.resp.body

(* C8: no failure of a request ends the process.                           *)
C8_NeverFatal == alive

(* C9: every POST /chat with a non-empty message is eventually answered,   *)
(* also when the runtime accepts connections and never answers.            *)
C9_ChatAnswered ==
    (\E req \in InFlight : req.kind = "chat") ~> (IsChat /\ last.resp.status # 0)

(* C10: a successful generation is relayed verbatim, the empty text        *)
(* included; the placeholder stands in only for an absent response field.  *)
C10_ReplyVerbatim ==
    (IsChat /\ last.resp.status = 200) =>
        last.resp.body.reply =
            IF last.upstream.type = "undefined" THEN "No response from AI model."
            ELSE last.upstream.val


(* The exchange made the given call to the runtime. *)
Called(exchange, call) == \E i \in 1..Len(exchange.calls) : exchange.calls[i] = call

(* The chat exchange just finished is one whose generate call failed. *)
ChatFailed == IsChat /\ Called(last, "generate") /\ last.gen.settled = "error"

(* C11: when the generate call of a validated chat request fails, the      *)
(* answer is decided by the failure alone: connection refused gives 503,   *)
(* a 404 from the runtime gives 404, a host that does not resolve gives    *)
(* 503, and every other failure gives 500 with the failure's message in    *)
(* the error text; the request is answered once, with that response.       *)
C11_ErrorMapping ==
    ChatFailed =>
        /\ last.resp.status =
             (CASE last.gen.code = "ECONNREFUSED" -> 503
                [] last.gen.code # "ECONNREFUSED" /\ last.gen.status = 404 -> 404
                [] last.gen.code = "ENOTFOUND" /\ last.gen.status # 404 -> 503
                [] OTHER -> 500)
        /\ last.resp.status = 500 =>
             last.resp.body.error = <<"Failed to get response from Ollama: ", last.gen.message>>
        /\ \A req \in InFlight : req.kind = "chat" => req.pc \in {"tags", "generate"}

(* Each kind of failure has been answered: refused, model missing, host    *)
(* unknown, and a timeout of the generate call.                            *)
C11_Witness ==
    /\ ChatFailed
    /\ last.gen.code = "ECONNABORTED"
    /\ last.resp.status = 500
    /\ last.resp.body.error[2] = "timeout of 30000ms exceeded"

(* C12: a POST /chat without a message, or with an empty one, is answered  *)
(* 400 and makes no call to the runtime, neither for the model list nor    *)
(* for a generation.                                                       *)
C12_NoMessageNoCall ==
    /\ (IsChat /\ ~Truthy(last.body.message)) =>
           (last.resp.status = 400 /\ last.calls = <<>>)
    /\ \A req \in InFlight : req.kind = "chat" => Truthy(req.body.message)

(* An empty message was answered 400 while the runtime was up. *)
C12_Witness ==
    /\ IsChat
    /\ last.body.message = JStr("")
    /\ last.resp.status = 400
    /\ runtime = "up"

(* C13: every request to /chat with another verb than POST is answered 405 *)
(* with Allow: POST, whatever its body, and makes no call to the runtime.  *)
C13_OtherVerbs405 ==
    last.kind = "chat-verb" =>
        (last.resp.status = 405 /\ last.resp.allow = "POST" /\ last.calls = <<>>)

(* The number of generate calls among the calls. *)
Generations(calls) == Cardinality({i \in 1..Len(calls) : calls[i] = "generate"})

(* C14: a chat request makes one attempt: at most one generate call is     *)
(* issued for it, and after a failed call nothing more is sent to the      *)
(* runtime.                                                                *)
C14_SingleAttempt ==
    /\ \A req \in InFlight : req.kind = "chat" => Generations(req.calls) <= 1
    /\ IsChat => Generations(last.calls) <= 1
    /\ ChatFailed => last.calls = <<"tags", "generate">>

(* A generate call failed because the runtime refused the connection, and  *)
(* the request was answered after that one call.                           *)
C14_Witness ==
    /\ ChatFailed
    /\ last.gen.code = "ECONNREFUSED"
    /\ Generations(last.calls) = 1

HealthListed ==
    /\ last.kind = "health"
    /\ last.listing.shape = "list"
    /\ \A i \in 1..Len(last.listing.models) : last.listing.models[i].type = "object"

(* C16: when the model list is fetched, GET /health/ollama answers 200     *)
(* 'healthy' with the number of listed models, all their names, and        *)
(* required_model_available true exactly when some listed name is          *)
(* 'llama3.2:1b-instruct-q4_K_M'.                                          *)
C16_HealthReport ==
    HealthListed =>
        /\ last.resp.status = 200
        /\ last.resp.body.status = "healthy"
        /\ last.resp.body.models_available = Len(last.listing.models)
        /\ last.resp.body.models = [i \in 1..Len(last.listing.models) |-> last.listing.models[i].name]
        /\ last.resp.body.required_model_available =
             (\E i \in 1..Len(last.listing.models) :
                 last.listing.models[i].name = "llama3.2:1b-instruct-q4_K_M")

(* The runtime listed a model with a similar name only, and the report is  *)
(* healthy with the flag false.                                            *)
C16_Witness ==
    /\ HealthListed
    /\ last.listing.models = <<Model("llama3.2:1b")>>
    /\ last.resp.status = 200
    /\ last.resp.body.required_model_available = FALSE

(* The listing query of the health exchange failed: the call was rejected, *)
(* or its answer is no list of model objects.                              *)
HealthQueryFailed == last.kind = "health" /\ ~HealthListed

C18_AllOrNothing ==
    [][IsSignup' =>
         IF last'.resp.status = 201
         THEN Len(users') = Len(users) + 1 /\ SubSeq(users', 1, Len(users)) = users
         ELSE users' = users]_vars

(* C19: no response discloses a credential: the 201 of a signup holds the  *)
(* message and the new record's id only, the 200 of a login holds the      *)
(* message and the record's id, username, email and phone only, and every  *)
(* other answer of the two endpoints is a fixed text.                      *)
C19_NoCredentialDisclosed ==
    /\ (IsSignup /\ last.resp.status = 201) =>
           \E d \in UserDocs : last.resp.body = [message |-> "User created", userId |-> d.id]
    /\ (IsLogin /\ last.resp.status = 200) =>
           \E d \in UserDocs :
               last.resp.body = [message |-> "Login successful", userId |-> d.id,
                                 username |-> d.username, email |-> d.email, phone |-> d.phone]
    /\ ((IsSignup \/ IsLogin) /\ last.resp.status \notin {200, 201}) =>
           \/ last.resp.body = [error |-> "Missing fields"]
           \/ last.resp.body = [error |-> "User already exists or invalid data"]
           \/ last.resp.body = [error |-> "Invalid credentials"]
           \/ last.resp.body = [html |-> "Internal Server Error"]
           \/ last.resp.body = [none |-> ""]

(* A login was verified against a stored hash and answered 200. *)
C19_Witness ==
    /\ IsLogin
    /\ last.resp.status = 200
    /\ \E d \in UserDocs : d.id = last.resp.body.userId /\ d.passwordHash.digest[2] = "p"

(* C20: every record's passwordHash is the salted hash of the password of  *)
(* the signup that wrote the record, never the password itself; a record   *)
(* has no other field made from the password, and once written it stays    *)
(* as it is.                                                               *)
C20_OnlyHashStored ==
    [][/\ Len(users') >= Len(users)
       /\ SubSeq(users', 1, Len(users)) = users
       /\ Len(users') > Len(users) =>
            LET d == users'[Len(users')]
            IN  /\ Len(users') = Len(users) + 1
                /\ IsSignup'
                /\ \E salt \in Salts :
                     d = [id |-> Len(users'), username |-> last'.body.username.val,
                          email |-> last'.body.email.val, phone |-> last'.body.phone,
                          passwordHash |-> [alg |-> "bcrypt10", salt |-> salt,
                                            digest |-> <<salt, last'.body.password.val>>]]]_vars

(* A second record was just written, for a signup with the password "p". *)
C20_Witness ==
    /\ IsSignup
    /\ last.resp.status = 201
    /\ last.body.password = JStr("p")
    /\ Len(users) = 2
    /\ users[2].passwordHash.alg = "bcrypt10"

(* C21: User records are write-once: whatever request takes a step, the    *)
(* records already stored stay as they are, field by field and in place,   *)
(* none is removed, and a step that finishes a login leaves the store      *)
(* unchanged.                                                              *)
C21_WriteOnce ==
    [][/\ Len(users') >= Len(users)
       /\ \A i \in 1..Len(users) :
            /\ users'[i].id = users[i].id
            /\ users'[i].username = users[i].username
            /\ users'[i].email = users[i].email
            /\ users'[i].passwordHash = users[i].passwordHash
            /\ users'[i].phone = users[i].phone
       /\ IsLogin' => users' = users]_vars

(* Two records are stored and a signup that reuses the username of one of  *)
(* them, with another email, has just been turned down.                    *)
C21_Witness ==
    /\ Len(users) = 2
    /\ IsSignup
    /\ last.resp.status = 400
    /\ last.body.password = JStr("p")
    /\ \E d \in UserDocs : d.username = last.body.username.val /\ d.email # last.body.email.val

(* A required field of the body is absent or empty. *)
MissingField(body, fields) == \E f \in fields : ~Truthy(body[f])

(* C22: validation comes first: a signup without username, email or        *)
(* password and a login without usernameOrEmail or password are answered   *)
(* 400 'Missing fields', and no such request is ever suspended at a hash   *)
(* or at a store operation.                                                *)
C22_ValidationFirst ==
    /\ (IsSignup /\ MissingField(last.body, {"username", "email", "password"})) =>
           last.resp = [status |-> 400, body |-> [error |-> "Missing fields"]]
    /\ (IsLogin /\ MissingField(last.body, {"usernameOrEmail", "password"})) =>
           last.resp = [status |-> 400, body |-> [error |-> "Missing fields"]]
    /\ \A req \in InFlight :
           /\ req.kind = "signup" => ~MissingField(req.body, {"username", "email", "password"})
           /\ req.kind = "login" => ~MissingField(req.body, {"usernameOrEmail", "password"})

(* A signup with an empty password was answered 400 while a record was     *)
(* stored and another request was suspended.                               *)
C22_Witness ==
    /\ IsSignup
    /\ last.body.password = JStr("")
    /\ last.resp.status = 400
    /\ Len(users) = 1
    /\ InFlight # {}

(* The store turned the insert of the signup just finished down, and the   *)
(* handler's catch block ran.                                              *)
StoreRejected == IsSignup /\ last.cause \in {"duplicate", "store-error"}

C25_NoInterference ==
    [][BagCardinality(inflight (-) inflight') <= 1]_vars

(* C26: of the signups in flight with the same username or email, one is   *)
(* answered 201 and creates the record and every other one is answered     *)
(* with the 400 conflict response: a signup the store handles is answered  *)
(* 201 when no stored record has its username or email, and with the       *)
(* conflict response when one has.                                         *)
C26_OneWinner ==
    (/\ IsSignup
     /\ last.body.password.type = "string"
     /\ ~MissingField(last.body, {"username", "email", "password"})
     /\ last.cause # "store-error")
    => IF Reuses(last, StoredBefore)
       THEN last.resp = [status |-> 400, body |-> [error |-> "User already exists or invalid data"]]
       ELSE last.resp.status = 201

(* C23: the same POST /chat, repeated while the runtime cannot be reached,  *)
(* gets the same status and the same error every time: the answer is fixed *)
(* by the way the runtime fails, and nothing an earlier request or report  *)
(* has left behind changes it.                                             *)
C23_SameFailureAgain ==
    (IsChat /\ Truthy(last.body.message)) =>
        /\ runtime = "refused" =>
             last.resp = [status |-> 503,
                          body |-> [error |-> "Cannot connect to Ollama service. Please ensure Ollama is running."]]
        /\ runtime = "nohost" =>
             last.resp = [status |-> 503,
                          body |-> [error |-> "Ollama service not found. Please check your network configuration."]]
        /\ runtime = "silent" =>
             last.resp = [status |-> 500,
                          body |-> [error |-> <<"Failed to get response from Ollama: ",
                                                "timeout of 30000ms exceeded">>]]

(* A chat failed on a refused connection after an unhealthy report, while  *)
(* another chat with the same message is still on its way.                 *)
C23_Witness ==
    /\ IsChat /\ Truthy(last.body.message)
    /\ runtime = "refused"
    /\ last.resp.status = 503
    /\ reported = "unhealthy"
    /\ \E req \in InFlight : req.kind = "chat" /\ req.body = last.body

(* C27: for every chat with a message, the backend has checked that the    *)
(* required model is in the runtime's model list before it issues the      *)
(* generate call.                                                          *)
C27_ModelCheckedFirst ==
    (IsChat /\ Called(last, "generate")) => (last.tagsOk /\ last.modelListed)

(* C28: a chat is answered 200 with a reply only when the generate call    *)
(* was answered with status 200; an answer with any other status gives     *)
(* 500 'Ollama API error.' and no reply.                                   *)
C28_Only200Replies ==
    /\ (IsChat /\ last.resp.status = 200) =>
           /\ Called(last, "generate")
           /\ last.gen.settled = "answer" /\ last.gen.status = 200
           /\ DOMAIN last.resp.body = {"reply"}
    /\ (IsChat /\ Called(last, "generate") /\ last.gen.settled = "answer" /\ last.gen.status # 200) =>
           last.resp = [status |-> 500, body |-> [error |-> "Ollama API error."]]

(* The runtime answered the generate call with 204 and a response text,    *)
(* and the chat was answered 500.                                          *)
C28_Witness ==
    /\ IsChat /\ Called(last, "generate")
    /\ last.gen.settled = "answer"
    /\ last.gen.status = 204
    /\ last.gen.response = JStr("hello")
    /\ last.resp.status = 500

(* C29: wait_for_services prints 'Ollama is ready' and stops waiting only  *)
(* after a poll of /health/ollama came back with the status healthy; a     *)
(* poll answered 'unhealthy' keeps it waiting.                             *)
C29_ReadyOnlyWhenHealthy ==
    /\ waiter.ollamaReady => waiter.polled = "healthy"
    /\ waiter.i <= OllamaAttempts

(* C30: the start script issues the model pull only after a probe of       *)
(* /api/tags has succeeded; its loop makes at most 30 probes; and when no  *)
(* probe succeeded it does not report the model pulled and Ollama ready.   *)
C30_PullAfterProbe ==
    /\ starter.pullIssued => starter.probed
    /\ starter.i <= StartProbes
    /\ starter.pc = "ready" => starter.probed

=============================================================================
